---- MODULE Spec2Model ----
(***************************************************************************)
(* Model of the non-null-optional-field nexus plugin                       *)
(* (packages/@txo/non-null-optional-field-nexus-plugin/src/Api/            *)
(* NonNullOptionalFieldPlugin.ts).                                         *)
(*                                                                         *)
(* JavaScript objects are modelled with reference identity: a              *)
(* ValidationType object is an entry of `heap` and a reference to it is    *)
(* its index (0 stands for `undefined`).  JSON-like value trees (the       *)
(* resolver arguments and the ErrorMap) are functions from paths           *)
(* (sequences of keys, array indices as decimal strings) to the kind of    *)
(* the node found there.                                                   *)
(***************************************************************************)
EXTENDS Integers, Sequences, FiniteSets, TLC

\* ------------------------------------------------------------------ bounds
\* Largest argument tree (number of nodes, the `args` object included) a
\* request supplies to a resolver.
MaxNodes == 5
\* Longest list a value holds.
MaxListLen == 2
\* Largest value tree handed to validate when it is checked on its own.
MaxValueNodes == 4

\* ------------------------------------------------------- graphql type model
\* A GraphQLInputType: a named type under a stack of list / non-null
\* wrappers, outermost first.
Named(n) == [wrap |-> <<>>, name |-> n]
ListOf(t) == [wrap |-> <<"list">> \o t.wrap, name |-> t.name]
NonNullOf(t) == [wrap |-> <<"nonnull">> \o t.wrap, name |-> t.name]

\* The named types of the schemas explored: one scalar, two input objects.
ScalarNames == {"String"}
InputObjectNames == {"Inner", "Outer"}
TypeNames == ScalarNames \cup InputObjectNames

isNamedType(type) == type.wrap = <<>>
isListType(type) == type.wrap # <<>> /\ Head(type.wrap) = "list"
isNonNullType(type) == type.wrap # <<>> /\ Head(type.wrap) = "nonnull"
isInputObjectType(type) == isNamedType(type) /\ type.name \in InputObjectNames
getNamedType(type) == Named(type.name)
\* The type one wrapper down (graphql's ofType).
ofType(type) == [wrap |-> Tail(type.wrap), name |-> type.name]

\* The fields an input object type may declare, in declaration order
\* (Object.keys order), and the types a declaration may give them.  Together
\* they hold a two-level nesting (Outer.outer : Inner), a reference cycle
\* through list / non-null wrappers (Inner.back : [Outer!]) and a direct
\* self reference (Inner.back : Inner).
FieldOrder == [Inner |-> <<"inner", "back">>, Outer |-> <<"outer">>]
FieldNamesOf(T) == {FieldOrder[T][i] : i \in 1..Len(FieldOrder[T])}
FieldTypeChoices(T, f) ==
  IF T = "Outer" THEN {Named("Inner")}
  ELSE IF f = "inner" THEN {Named("String")}
  ELSE {ListOf(NonNullOf(Named("Outer"))), Named("Inner")}

\* JavaScript's three-valued reading of an optional boolean.
Flags == {"undefined", "false", "true"}
Truthy(flag) == flag = "true"

UndefinedField == [defined |-> FALSE, type |-> Named("String"), nonNullOptional |-> "undefined"]

\* ------------------------------------------------------------------- state
VARIABLES
  inputFields,          \* the schema: per input object type, its fields with extensions.nexus.config.nonNullOptional
  validationTypeCache,  \* validationTypeCache: type name -> reference (0: not in the cache)
  heap,                 \* the ValidationType objects allocated so far
  resolvers,            \* per operation: what onCreateFieldResolver was given and returned
  lastCall,             \* the last invocation of a resolver (or of validate alone)
  allocCount,           \* per type name: cache nodes allocated for it
  populateCount,        \* per type name: times the mapper was entered to populate its node
  compileLog,           \* every (type, returned reference) of a getValidationType call
  lastSteps,            \* getValidationType calls made by the last handler
  overflow              \* the last handler exceeded StepLimit calls

vars == <<inputFields, validationTypeCache, heap, resolvers, lastCall,
          allocCount, populateCount, compileLog, lastSteps, overflow>>

\* ------------------------------------------------------ validation shapes
EmptyFn == [k \in {} |-> 0]
\* `{}`: a ValidationType without `fields`.
EmptyShape == [hasFields |-> FALSE, fields |-> EmptyFn]
\* A ValidationField `{ type, config: { nonNullOptional } }`.
FieldWithConfig(ref, flag) == [type |-> ref, hasConfig |-> TRUE, nonNullOptional |-> flag]
\* A ValidationField `{ type }`.
FieldNoConfig(ref) == [type |-> ref, hasConfig |-> FALSE, nonNullOptional |-> "undefined"]

\* ------------------------------------------------------------ onAddInputField
\* `opt` is what the field definition carries: "absent" when it has no
\* nonNullOptional key, else the key's value.
FieldOptions == {"absent", "false", "true"}
containsNonNullOptional(opt) == opt # "absent"
\* The extensions.nexus.config.nonNullOptional of the field returned.
onAddInputField(opt) ==
  IF containsNonNullOptional(opt) THEN opt ELSE "undefined"

\* ------------------------------------------------------- getValidationType
\* The closure state a compilation threads through its calls.
CompileState ==
  [cache |-> validationTypeCache, heap |-> heap, allocCount |-> allocCount,
   populateCount |-> populateCount, log |-> compileLog, steps |-> 0, overflow |-> FALSE]

\* A bound on the getValidationType calls of one handler, above what any
\* schema of the model needs: two per argument and two per declared field.
ArgNames == {"x", "y"}
StepLimit ==
  2 * (Cardinality(ArgNames) + Len(FieldOrder["Inner"]) + Len(FieldOrder["Outer"]))

RECURSIVE getValidationType(_, _)
RECURSIVE mapper(_, _, _)
RECURSIVE populateFields(_, _, _, _)

\* inputFieldKeyList: the declared keys whose nonNullOptional is truthy.
inputFieldKeyList(name) ==
  SelectSeq(FieldOrder[name],
            LAMBDA key : inputFields[name][key].defined
                         /\ Truthy(inputFields[name][key].nonNullOptional))

\* The forEach of lines 97-106 over the remaining `keys`.
populateFields(name, keys, validationType, st) ==
  IF keys = <<>> THEN [st |-> st, ref |-> validationType]
  ELSE LET key == Head(keys)
           subInputField == inputFields[name][key]
           r == getValidationType(subInputField.type, st)
           entry == FieldWithConfig(r.ref, subInputField.nonNullOptional)
           s2 == [r.st EXCEPT !.heap[validationType].fields = (key :> entry) @@ @]
       IN populateFields(name, Tail(keys), validationType, s2)

\* The mapper handed to cacheEnhancer.
mapper(type, validationType, st) ==
  IF isListType(type) \/ isNonNullType(type)
  THEN getValidationType(getNamedType(type), st)
  ELSE IF isInputObjectType(type)
  THEN LET keys == inputFieldKeyList(type.name)
       IN IF Len(keys) > 0
          THEN populateFields(type.name, keys, validationType,
                              [st EXCEPT !.heap[validationType].hasFields = TRUE])
          ELSE [st |-> st, ref |-> validationType]
  ELSE [st |-> st, ref |-> validationType]

\* getValidationType without the cache lookup of lines 73-75.
getValidationTypeNoHit(type, st) ==
  IF st.overflow \/ st.steps >= StepLimit
  THEN [st |-> [st EXCEPT !.overflow = TRUE], ref |-> 0]
  ELSE
    LET s1 == [st EXCEPT !.steps = @ + 1]
        node == Len(s1.heap) + 1
        r == IF isNamedType(type)
             THEN mapper(type, node,
                         [s1 EXCEPT !.heap = Append(@, EmptyShape),
                                    !.cache[type.name] = node,
                                    !.allocCount[type.name] = @ + 1,
                                    !.populateCount[type.name] = @ + 1])
             ELSE mapper(type, node, [s1 EXCEPT !.heap = Append(@, EmptyShape)])
    IN [st |-> [r.st EXCEPT !.log = @ \cup {[type |-> type, ref |-> r.ref]}],
        ref |-> r.ref]

\* getValidationType entering the node into the cache only once the mapper
\* has returned.
getValidationTypeLateInsert(type, st) ==
  IF st.overflow \/ st.steps >= StepLimit
  THEN [st |-> [st EXCEPT !.overflow = TRUE], ref |-> 0]
  ELSE
    LET s1 == [st EXCEPT !.steps = @ + 1]
        node == Len(s1.heap) + 1
        r == IF isNamedType(type)
             THEN IF s1.cache[type.name] # 0
                  THEN [st |-> s1, ref |-> s1.cache[type.name]]
                  ELSE LET m == mapper(type, node,
                                       [s1 EXCEPT !.heap = Append(@, EmptyShape),
                                                  !.allocCount[type.name] = @ + 1,
                                                  !.populateCount[type.name] = @ + 1])
                       IN [st |-> [m.st EXCEPT !.cache[type.name] = node], ref |-> m.ref]
             ELSE mapper(type, node, [s1 EXCEPT !.heap = Append(@, EmptyShape)])
    IN [st |-> [r.st EXCEPT !.log = @ \cup {[type |-> type, ref |-> r.ref]}],
        ref |-> r.ref]

\* getValidationType caching one object and populating another.
getValidationTypeCopy(type, st) ==
  IF st.overflow \/ st.steps >= StepLimit
  THEN [st |-> [st EXCEPT !.overflow = TRUE], ref |-> 0]
  ELSE
    LET s1 == [st EXCEPT !.steps = @ + 1]
        node == Len(s1.heap) + 1
        r == IF isNamedType(type)
             THEN IF s1.cache[type.name] # 0
                  THEN [st |-> s1, ref |-> s1.cache[type.name]]
                  ELSE mapper(type, node + 1,
                              [s1 EXCEPT !.heap = Append(Append(@, EmptyShape), EmptyShape),
                                         !.cache[type.name] = node,
                                         !.allocCount[type.name] = @ + 1,
                                         !.populateCount[type.name] = @ + 1])
             ELSE mapper(type, node, [s1 EXCEPT !.heap = Append(@, EmptyShape)])
    IN [st |-> [r.st EXCEPT !.log = @ \cup {[type |-> type, ref |-> r.ref]}],
        ref |-> r.ref]

\* cacheEnhancer(mapper): the function getValidationType names.
getValidationType(type, st) ==
  IF st.overflow \/ st.steps >= StepLimit
  THEN [st |-> [st EXCEPT !.overflow = TRUE], ref |-> 0]
  ELSE
    LET s1 == [st EXCEPT !.steps = @ + 1]
        node == Len(s1.heap) + 1
        r == IF isNamedType(type)
             THEN IF s1.cache[type.name] # 0
                  THEN [st |-> s1, ref |-> s1.cache[type.name]]
                  ELSE mapper(type, node,
                              [s1 EXCEPT !.heap = Append(@, EmptyShape),
                                         !.cache[type.name] = node,
                                         !.allocCount[type.name] = @ + 1,
                                         !.populateCount[type.name] = @ + 1])
             ELSE mapper(type, node, [s1 EXCEPT !.heap = Append(@, EmptyShape)])
    IN [st |-> [r.st EXCEPT !.log = @ \cup {[type |-> type, ref |-> r.ref]}],
        ref |-> r.ref]

\* ------------------------------------------------ createArgsValidationType
\* An argMap: `undefined`, or a map from argument names to types.
NoArgMap == [defined |-> FALSE, args |-> EmptyFn]
ArgMapOf(f) == [defined |-> TRUE, args |-> f]
ArgOrder == <<"x", "y">>
ArgKeys(argMap) == SelectSeq(ArgOrder, LAMBDA k : k \in DOMAIN argMap.args)

RECURSIVE collectArgFields(_, _, _, _)
\* The forEach of lines 116-124 over the remaining `keys`.
collectArgFields(argMap, keys, fields, st) ==
  IF keys = <<>> THEN [st |-> st, fields |-> fields]
  ELSE LET key == Head(keys)
           r == getValidationType(argMap.args[key], st)
           has == r.ref # 0 /\ r.st.heap[r.ref].hasFields
       IN collectArgFields(argMap, Tail(keys),
                           IF has THEN (key :> FieldNoConfig(r.ref)) @@ fields ELSE fields,
                           r.st)

\* createArgsValidationType without the test of line 125: `{ fields }` is
\* returned for every argMap.
createArgsValidationTypeAlways(argMap, st) ==
  IF argMap.defined
  THEN LET r == collectArgFields(argMap, ArgKeys(argMap), EmptyFn, st)
       IN [st |-> [r.st EXCEPT !.heap = Append(@, [hasFields |-> TRUE, fields |-> r.fields])],
           ref |-> Len(r.st.heap) + 1]
  ELSE [st |-> st, ref |-> 0]

\* Returns the state and the reference of the `{ fields }` object, 0 for undefined.
createArgsValidationType(argMap, st) ==
  IF argMap.defined
  THEN LET r == collectArgFields(argMap, ArgKeys(argMap), EmptyFn, st)
       IN IF DOMAIN r.fields # {}
          THEN [st |-> [r.st EXCEPT !.heap = Append(@, [hasFields |-> TRUE, fields |-> r.fields])],
                ref |-> Len(r.st.heap) + 1]
          ELSE [st |-> r.st, ref |-> 0]
  ELSE [st |-> st, ref |-> 0]

\* ------------------------------------------------------------- value trees
\* A value is a function from paths to node kinds; <<>> is its root.  An
\* array's elements sit under the decimal strings of their indices.
Kinds == {"null", "undefined", "scalar", "falsy", "array", "object"}
\* `value &&`: null, undefined and the falsy scalars (0, "", false) stop the walk.
IsTruthy(kind) == kind \in {"scalar", "array", "object"}
Leaf(kind) == (<<>> :> kind)
\* The tree `t` hung under key `k`.
Graft(k, t) == [p \in {<<k>> \o q : q \in DOMAIN t} |-> t[Tail(p)]]
\* value[k]
Sub(value, k) ==
  [q \in {Tail(p) : p \in {r \in DOMAIN value : r # <<>> /\ Head(r) = k}} |-> value[<<k>> \o q]]
\* Object.keys(value)
Keys(value) == {Head(p) : p \in DOMAIN value \ {<<>>}}
\* value.length of an array
ArrayLength(value) == Cardinality(Keys(value))

Digits == <<"0", "1", "2", "3", "4", "5", "6", "7", "8", "9">>
RECURSIVE IndexToString(_)
\* index.toString()
IndexToString(index) ==
  IF index < 10 THEN Digits[index + 1]
  ELSE IndexToString(index \div 10) \o Digits[(index % 10) + 1]

\* ------------------------------------------------------------ lodash.set
\* `{}`
EmptyErrorMap == Leaf("object")
\* lodash's isIndex on a path key.
isIndex(key) == \E i \in 0..(MaxListLen + 1) : key = IndexToString(i)
\* set(errorMap, path, null): missing (or non-object) containers along the
\* path are created, an array when the next key is an index, else an object.
set(errorMap, path) ==
  LET n == Len(path)
      Pre(i) == SubSeq(path, 1, i)
      IsObj(p) == p \in DOMAIN errorMap /\ errorMap[p] # "null"
      below == {q \in DOMAIN errorMap : Len(q) > n /\ SubSeq(q, 1, n) = path}
      created == [p \in {Pre(i) : i \in 1..(n - 1)} |->
                    IF IsObj(p) THEN errorMap[p]
                    ELSE IF isIndex(path[Len(p) + 1]) THEN "array" ELSE "object"]
      kept == [q \in DOMAIN errorMap \ below |-> errorMap[q]]
  IN (path :> "null") @@ created @@ kept

\* The paths at which an ErrorMap holds the terminal marker.
ViolationPaths(errorMap) == {p \in DOMAIN errorMap : errorMap[p] = "null"}
\* Object.keys(errorMap).length
ErrorMapSize(errorMap) == Cardinality(Keys(errorMap))

\* ---------------------------------------------------------------- validate
RECURSIVE validate(_, _, _, _)
RECURSIVE validateElements(_, _, _, _, _)
RECURSIVE validateKeys(_, _, _, _, _)

\* validationType.fields?.[key] is defined
HasField(validationType, key) ==
  /\ validationType # 0
  /\ heap[validationType].hasFields
  /\ key \in DOMAIN heap[validationType].fields

\* validateElements with the path extended by a one-based index.
validateElementsOneBased(value, index, validationType, path, errorMap) ==
  IF index >= ArrayLength(value) THEN errorMap
  ELSE validateElements(value, index + 1, validationType, path,
         validate(Sub(value, IndexToString(index)), validationType,
                  path \o <<IndexToString(index + 1)>>, errorMap))

\* The forEach of line 51, from `index` on.
validateElements(value, index, validationType, path, errorMap) ==
  IF index >= ArrayLength(value) THEN errorMap
  ELSE validateElements(value, index + 1, validationType, path,
         validate(Sub(value, IndexToString(index)), validationType,
                  path \o <<IndexToString(index)>>, errorMap))

\* validateKeys marking every null whose key the shape describes, whatever
\* the field's config.
validateKeysAnyNull(value, keys, validationType, path, errorMap) ==
  IF keys = {} THEN errorMap
  ELSE LET key == CHOOSE k \in keys : TRUE
           subValue == Sub(value, key)
           has == HasField(validationType, key)
           subType == IF has THEN heap[validationType].fields[key].type ELSE 0
           subPath == path \o <<key>>
           marked == IF subValue[<<>>] = "null" /\ has
                     THEN set(errorMap, subPath) ELSE errorMap
       IN validateKeys(value, keys \ {key}, validationType, path,
                       validate(subValue, subType, subPath, marked))

\* validateKeys comparing with `== null`, which undefined satisfies too.
validateKeysLooseNull(value, keys, validationType, path, errorMap) ==
  IF keys = {} THEN errorMap
  ELSE LET key == CHOOSE k \in keys : TRUE
           subValue == Sub(value, key)
           has == HasField(validationType, key)
           subType == IF has THEN heap[validationType].fields[key].type ELSE 0
           subPath == path \o <<key>>
           flagged == /\ has
                      /\ heap[validationType].fields[key].hasConfig
                      /\ Truthy(heap[validationType].fields[key].nonNullOptional)
           marked == IF subValue[<<>>] \in {"null", "undefined"} /\ flagged
                     THEN set(errorMap, subPath) ELSE errorMap
       IN validateKeys(value, keys \ {key}, validationType, path,
                       validate(subValue, subType, subPath, marked))

\* The forEach of lines 53-61 over the remaining `keys`.
validateKeys(value, keys, validationType, path, errorMap) ==
  IF keys = {} THEN errorMap
  ELSE LET key == CHOOSE k \in keys : TRUE
           subValue == Sub(value, key)
           has == HasField(validationType, key)
           subType == IF has THEN heap[validationType].fields[key].type ELSE 0
           subPath == path \o <<key>>
           flagged == /\ has
                      /\ heap[validationType].fields[key].hasConfig
                      /\ Truthy(heap[validationType].fields[key].nonNullOptional)
           marked == IF subValue[<<>>] = "null" /\ flagged
                     THEN set(errorMap, subPath) ELSE errorMap
       IN validateKeys(value, keys \ {key}, validationType, path,
                       validate(subValue, subType, subPath, marked))

validate(value, validationType, path, errorMap) ==
  IF IsTruthy(value[<<>>]) /\ validationType # 0
  THEN IF value[<<>>] = "array"
       THEN validateElements(value, 0, validationType, path, errorMap)
       ELSE IF value[<<>>] = "object"
       THEN validateKeys(value, Keys(value), validationType, path, errorMap)
       ELSE errorMap
  ELSE errorMap

\* --------------------------------------------------- the resolver wrapper
\* The opaque (root, ctx, info) a resolver is invoked with.
Envs == {"request1", "request2"}
NoValue == Leaf("undefined")

NoCall ==
  [kind |-> "none", op |-> "none", env |-> "none", args |-> NoValue,
   validated |-> FALSE, errorMap |-> EmptyErrorMap, threw |-> FALSE,
   nextCalls |-> 0, nextEnv |-> "none", nextArgs |-> NoValue]

\* The wrapper without its throw: next is called whatever validate found.
wrapperNoThrow(op, env, args, argsValidationType) ==
  [kind |-> "resolve", op |-> op, env |-> env, args |-> args,
   validated |-> TRUE,
   errorMap |-> validate(args, argsValidationType, <<"args">>, EmptyErrorMap),
   threw |-> FALSE, nextCalls |-> 1, nextEnv |-> env, nextArgs |-> args]

\* The function of lines 162-169, for the shape its closure holds.
wrapper(op, env, args, argsValidationType) ==
  LET errorMap == validate(args, argsValidationType, <<"args">>, EmptyErrorMap)
  IN IF ErrorMapSize(errorMap) > 0
     THEN [kind |-> "resolve", op |-> op, env |-> env, args |-> args,
           validated |-> TRUE, errorMap |-> errorMap, threw |-> TRUE,
           nextCalls |-> 0, nextEnv |-> "none", nextArgs |-> NoValue]
     ELSE [kind |-> "resolve", op |-> op, env |-> env, args |-> args,
           validated |-> TRUE, errorMap |-> errorMap, threw |-> FALSE,
           nextCalls |-> 1, nextEnv |-> env, nextArgs |-> args]

\* With no wrapper returned, the host runs the field's resolver itself.
unwrapped(op, env, args) ==
  [kind |-> "resolve", op |-> op, env |-> env, args |-> args,
   validated |-> FALSE, errorMap |-> EmptyErrorMap, threw |-> FALSE,
   nextCalls |-> 1, nextEnv |-> env, nextArgs |-> args]

\* ------------------------------------------------- argument values supplied
RECURSIVE ConformingOfSize(_, _)
RECURSIVE ConformingObjectBody(_, _, _)
RECURSIVE ConformingListBody(_, _, _)

\* The declared fields of an input object type, with their types.
DeclaredTypes(name) ==
  [f \in {g \in FieldNamesOf(name) : inputFields[name][g].defined} |-> inputFields[name][f].type]

\* The coerced values of `n` nodes the execution engine passes for `type`:
\* null unless the type is non-null, lists for list types, objects holding a
\* subset of the declared fields for input object types.
ConformingOfSize(type, n) ==
  IF n < 1 THEN {}
  ELSE IF isNonNullType(type)
  THEN {v \in ConformingOfSize(ofType(type), n) : v[<<>>] # "null"}
  ELSE (IF n = 1 THEN {Leaf("null")} ELSE {}) \cup
       (IF isListType(type)
        THEN {Leaf("array") @@ b : b \in ConformingListBody(ofType(type), 0, n - 1)}
        ELSE IF isInputObjectType(type)
        THEN {Leaf("object") @@ b :
                b \in ConformingObjectBody(DeclaredTypes(type.name),
                                           DOMAIN DeclaredTypes(type.name), n - 1)}
        ELSE IF n = 1 THEN {Leaf("scalar")} ELSE {})

ConformingObjectBody(typeOf, keys, n) ==
  IF keys = {} THEN (IF n = 0 THEN {EmptyFn} ELSE {})
  ELSE LET k == CHOOSE x \in keys : TRUE
       IN ConformingObjectBody(typeOf, keys \ {k}, n) \cup
          UNION {{Graft(k, t) @@ b : t \in ConformingOfSize(typeOf[k], m),
                                     b \in ConformingObjectBody(typeOf, keys \ {k}, n - m)}
                 : m \in 1..n}

ConformingListBody(type, index, n) ==
  IF n = 0 THEN {EmptyFn}
  ELSE IF index >= MaxListLen THEN {}
  ELSE UNION {{Graft(IndexToString(index), t) @@ b :
                 t \in ConformingOfSize(type, m),
                 b \in ConformingListBody(type, index + 1, n - m)}
              : m \in 1..n}

\* The args objects of at most MaxNodes nodes a request may supply for argMap.
ArgsValues(argMap) ==
  UNION {{Leaf("object") @@ b :
            b \in ConformingObjectBody(argMap.args, DOMAIN argMap.args, n - 1)}
         : n \in 1..MaxNodes}

\* ----------------------------------------------------------------- actions
Ops == {"createItem", "updateItem"}

ArgMapChoices ==
  {NoArgMap,
   ArgMapOf(EmptyFn),
   ArgMapOf("x" :> Named("Outer")),
   ArgMapOf(("x" :> NonNullOf(ListOf(NonNullOf(Named("Inner"))))) @@ ("y" :> Named("String")))}

NotCreated == [created |-> FALSE, argMap |-> NoArgMap, wrapped |-> FALSE, argsValidationType |-> 0]

Init ==
  /\ inputFields = [T \in InputObjectNames |-> [f \in FieldNamesOf(T) |-> UndefinedField]]
  /\ validationTypeCache = [n \in TypeNames |-> 0]
  /\ heap = <<>>
  /\ resolvers = [op \in Ops |-> NotCreated]
  /\ lastCall = NoCall
  /\ allocCount = [n \in TypeNames |-> 0]
  /\ populateCount = [n \in TypeNames |-> 0]
  /\ compileLog = {}
  /\ lastSteps = 0
  /\ overflow = FALSE

\* The host declares field `f` of input object type `T`; the plugin's
\* onAddInputField copies the field's nonNullOptional into its extensions.
\* A type's fields are all declared before any field resolver is created.
AddInputField(T, f, type, opt) ==
  /\ \A op \in Ops : ~resolvers[op].created
  /\ ~inputFields[T][f].defined
  /\ inputFields' = [inputFields EXCEPT ![T][f] =
        [defined |-> TRUE, type |-> type, nonNullOptional |-> onAddInputField(opt)]]
  /\ UNCHANGED <<validationTypeCache, heap, resolvers, lastCall, allocCount,
                 populateCount, compileLog, lastSteps, overflow>>

\* onCreateFieldResolver for operation `op` declared with `argMap`.
CreateFieldResolver(op, argMap) ==
  /\ ~resolvers[op].created
  /\ LET r == createArgsValidationType(argMap, CompileState)
     IN /\ resolvers' = [resolvers EXCEPT ![op] =
              [created |-> TRUE, argMap |-> argMap, wrapped |-> r.ref # 0,
               argsValidationType |-> r.ref]]
        /\ validationTypeCache' = r.st.cache
        /\ heap' = r.st.heap
        /\ allocCount' = r.st.allocCount
        /\ populateCount' = r.st.populateCount
        /\ compileLog' = r.st.log
        /\ lastSteps' = r.st.steps
        /\ overflow' = (overflow \/ r.st.overflow)
  /\ UNCHANGED <<inputFields, lastCall>>

\* A request invokes operation `op` with the opaque (root, ctx, info) of
\* Envs and an args object the execution engine coerced to the declared
\* argument types.  A resolver call changes nothing but the record of the
\* call, so a second request reaches no state a first one does not: one
\* request per behaviour is explored.
Resolve(op) ==
  /\ resolvers[op].created
  /\ lastCall.kind = "none"
  /\ \E env \in Envs : \E args \in ArgsValues(resolvers[op].argMap) :
       lastCall' = IF resolvers[op].wrapped
                   THEN wrapper(op, env, args, resolvers[op].argsValidationType)
                   ELSE unwrapped(op, env, args)
  /\ UNCHANGED <<inputFields, validationTypeCache, heap, resolvers, allocCount,
                 populateCount, compileLog, lastSteps, overflow>>

Next ==
  \/ \E T \in InputObjectNames : \E f \in FieldNamesOf(T) :
       \E type \in FieldTypeChoices(T, f) : \E opt \in FieldOptions :
         AddInputField(T, f, type, opt)
  \/ \E op \in Ops : \E argMap \in ArgMapChoices : CreateFieldResolver(op, argMap)
  \/ \E op \in Ops : Resolve(op)

Spec == Init /\ [][Next]_vars

\* ------------------------------------------------- validate on its own
\* Every value tree of exactly `n` nodes over the keys ValueKeys, whatever
\* its shape: validate is handed values and shapes that need not agree.
ValueKeys == {"a", "b"}
LeafKinds == {"null", "undefined", "scalar", "falsy"}

RECURSIVE ValuesOfSize(_)
RECURSIVE ObjectBodies(_, _)
RECURSIVE ListBodies(_, _)

ValuesOfSize(n) ==
  IF n < 1 THEN {}
  ELSE (IF n = 1 THEN {Leaf(k) : k \in LeafKinds} ELSE {}) \cup
       {Leaf("object") @@ b : b \in ObjectBodies(ValueKeys, n - 1)} \cup
       {Leaf("array") @@ b : b \in ListBodies(0, n - 1)}

ObjectBodies(keys, n) ==
  IF keys = {} THEN (IF n = 0 THEN {EmptyFn} ELSE {})
  ELSE LET k == CHOOSE x \in keys : TRUE
       IN ObjectBodies(keys \ {k}, n) \cup
          UNION {{Graft(k, t) @@ b : t \in ValuesOfSize(m), b \in ObjectBodies(keys \ {k}, n - m)}
                 : m \in 1..n}

ListBodies(index, n) ==
  IF n = 0 THEN {EmptyFn}
  ELSE IF index >= MaxListLen THEN {}
  ELSE UNION {{Graft(IndexToString(index), t) @@ b :
                 t \in ValuesOfSize(m), b \in ListBodies(index + 1, n - m)}
              : m \in 1..n}

AllValues == UNION {ValuesOfSize(n) : n \in 1..MaxValueNodes}

\* The shapes validate is handed: object 1 is any ValidationType over
\* ValueKeys whose fields refer to object 1 (a cyclic shape) or to object 2;
\* object 2 is one of two nested shapes.
ShapeRefs == {1, 2}
ShapeFieldChoices ==
  {FieldNoConfig(r) : r \in ShapeRefs} \cup
  {FieldWithConfig(r, flag) : r \in ShapeRefs, flag \in {"false", "true"}}
RootShapes ==
  {EmptyShape} \cup
  {[hasFields |-> TRUE, fields |-> f] :
     f \in UNION {[K -> ShapeFieldChoices] : K \in SUBSET ValueKeys}}
NestedShapes ==
  {EmptyShape,
   [hasFields |-> TRUE, fields |-> ("b" :> FieldWithConfig(1, "true")) @@ ("a" :> FieldNoConfig(2))]}

InitValidate ==
  /\ inputFields = [T \in InputObjectNames |-> [f \in FieldNamesOf(T) |-> UndefinedField]]
  /\ validationTypeCache = [n \in TypeNames |-> 0]
  /\ \E root \in RootShapes : \E nested \in NestedShapes : heap = <<root, nested>>
  /\ resolvers = [op \in Ops |-> NotCreated]
  /\ \E value \in AllValues : lastCall = [NoCall EXCEPT !.kind = "pending", !.args = value]
  /\ allocCount = [n \in TypeNames |-> 0]
  /\ populateCount = [n \in TypeNames |-> 0]
  /\ compileLog = {}
  /\ lastSteps = 0
  /\ overflow = FALSE

\* validate(value, shape, ['args'], {}) on the value and the shape drawn.
ValidateCall ==
  /\ lastCall.kind = "pending"
  /\ lastCall' = [lastCall EXCEPT
        !.kind = "validate",
        !.validated = TRUE,
        !.errorMap = validate(lastCall.args, 1, <<"args">>, EmptyErrorMap)]
  /\ UNCHANGED <<inputFields, validationTypeCache, heap, resolvers, allocCount,
                 populateCount, compileLog, lastSteps, overflow>>

NextValidate == ValidateCall

SpecValidate == InitValidate /\ [][NextValidate]_vars

\* ------------------------------------------------------------------ claims
Front(p) == SubSeq(p, 1, Len(p) - 1)
Last(p) == p[Len(p)]
IsPrefix(p, q) == Len(p) <= Len(q) /\ SubSeq(q, 1, Len(p)) = p
\* The number of children of the node at `pos`.
ChildCount(value, pos) ==
  Cardinality({q \in DOMAIN value : q # <<>> /\ Front(q) = pos})

\* The shape that governs the node at `pos` of `value` when the root is
\* governed by shape `root`: list elements share their list's shape, an
\* object's member has the shape of the field its key names.
RECURSIVE ShapeAt(_, _, _)
ShapeAt(value, root, pos) ==
  IF pos = <<>> THEN root
  ELSE LET s == ShapeAt(value, root, Front(pos))
       IN IF s = 0 THEN 0
          ELSE IF value[Front(pos)] = "array" THEN s
          ELSE IF value[Front(pos)] = "object" /\ HasField(s, Last(pos))
          THEN heap[s].fields[Last(pos)].type
          ELSE 0

\* Shape `s` has a field `k` whose config.nonNullOptional is set.
FieldFlagged(s, k) ==
  /\ HasField(s, k)
  /\ heap[s].fields[k].hasConfig
  /\ Truthy(heap[s].fields[k].nonNullOptional)

\* The paths whose value is an explicit null held by an object under a key
\* that names a flagged field of the shape reached there.
ExpectedViolations(value, root) ==
  {<<"args">> \o pos :
     pos \in {q \in DOMAIN value :
                /\ q # <<>>
                /\ value[q] = "null"
                /\ value[Front(q)] = "object"
                /\ FieldFlagged(ShapeAt(value, root, Front(q)), Last(q))}}

\* The schema's view of the types: what a type reaches through any declared
\* field, and whether a type declares a constrained field.
DeclaredFields(T) == {f \in FieldNamesOf(T) : inputFields[T][f].defined}
Constrained(T) ==
  /\ T \in InputObjectNames
  /\ \E f \in DeclaredFields(T) : Truthy(inputFields[T][f].nonNullOptional)
RECURSIVE ReachableTypes(_)
ReachableTypes(S) ==
  LET S2 == S \cup UNION {{inputFields[T][f].type.name : f \in DeclaredFields(T)}
                          : T \in S \cap InputObjectNames}
  IN IF S2 = S THEN S ELSE ReachableTypes(S2)
\* No constrained field on or anywhere beneath the arguments' types.
NoConstrainedField(argMap) ==
  \/ ~argMap.defined
  \/ \A k \in DOMAIN argMap.args :
       \A T \in ReachableTypes({argMap.args[k].name}) : ~Constrained(T)

StripNonNull(type) == IF isNonNullType(type) THEN ofType(type) ELSE type
\* The declared type of the node at `pos` (an argument or below) of an args value.
RECURSIVE TypeAt(_, _, _)
TypeAt(argMap, value, pos) ==
  IF Len(pos) = 1 THEN argMap.args[pos[1]]
  ELSE LET pt == StripNonNull(TypeAt(argMap, value, Front(pos)))
       IN IF value[Front(pos)] = "array" THEN ofType(pt)
          ELSE inputFields[pt.name][Last(pos)].type
\* Every field on the way from the argument down to `pos` carries the constraint.
RECURSIVE ThroughConstrained(_, _, _)
ThroughConstrained(argMap, value, pos) ==
  IF Len(pos) <= 1 THEN TRUE
  ELSE /\ ThroughConstrained(argMap, value, Front(pos))
       /\ value[Front(pos)] = "object" =>
            Truthy(inputFields[StripNonNull(TypeAt(argMap, value, Front(pos))).name][Last(pos)].nonNullOptional)
\* The explicit nulls on constrained fields reached through constrained fields only.
ConstrainedNulls(argMap, value) ==
  {pos \in DOMAIN value :
     /\ Len(pos) >= 2
     /\ value[pos] = "null"
     /\ value[Front(pos)] = "object"
     /\ ThroughConstrained(argMap, value, pos)}

\* C1: a wrapped resolver whose args validate to a non-empty violation map
\* throws and never calls next; with an empty map it calls next exactly once
\* with the root, ctx, info and args it was given.
C1_WrapperAbortsOrProceeds ==
  (lastCall.kind = "resolve" /\ resolvers[lastCall.op].wrapped) =>
    LET errorMap == validate(lastCall.args, resolvers[lastCall.op].argsValidationType,
                             <<"args">>, EmptyErrorMap)
    IN IF ErrorMapSize(errorMap) > 0
       THEN lastCall.threw /\ lastCall.nextCalls = 0
       ELSE /\ ~lastCall.threw
            /\ lastCall.nextCalls = 1
            /\ lastCall.nextArgs = lastCall.args
            /\ lastCall.nextEnv = lastCall.env

C1_Witness ==
  /\ lastCall.kind = "resolve"
  /\ resolvers[lastCall.op].wrapped
  /\ ViolationPaths(lastCall.errorMap) # {}
  /\ lastCall.threw
  /\ lastCall.nextCalls = 0

\* C2: with an argument of type Outer, Outer.outer of type Inner and the
\* constraint on Inner.inner, an explicit null at x.outer.inner aborts the
\* operation with a violation at args.x.outer.inner, whether or not
\* Outer.outer carries the constraint itself.
C2_NestedViolationReported ==
  (/\ lastCall.kind = "resolve"
   /\ resolvers[lastCall.op].argMap = ArgMapOf("x" :> Named("Outer"))
   /\ inputFields["Outer"]["outer"].defined
   /\ inputFields["Inner"]["inner"].defined
   /\ Truthy(inputFields["Inner"]["inner"].nonNullOptional)
   /\ <<"x", "outer", "inner">> \in DOMAIN lastCall.args
   /\ lastCall.args[<<"x", "outer", "inner">>] = "null")
  => /\ lastCall.threw
     /\ lastCall.nextCalls = 0
     /\ <<"args", "x", "outer", "inner">> \in ViolationPaths(lastCall.errorMap)

\* C3: one call of validate records a violation at a path exactly when the
\* value there is an explicit null under a key whose shape field has
\* config.nonNullOptional set; every such path is recorded.
C3_Completeness ==
  lastCall.kind = "validate" =>
    ViolationPaths(lastCall.errorMap) = ExpectedViolations(lastCall.args, 1)

C3_Witness ==
  /\ lastCall.kind = "validate"
  /\ lastCall.args = Leaf("object") @@ Graft("a", Leaf("null")) @@ Graft("b", Leaf("null"))
  /\ FieldFlagged(1, "a")
  /\ HasField(1, "b")
  /\ ~heap[1].fields["b"].hasConfig
  /\ ViolationPaths(lastCall.errorMap) = {<<"args", "a">>}

\* C4: a key of a constrained field that the object omits, or holds with
\* the value undefined, records nothing at or below its path; validating
\* `{}` leaves the violation map empty.
C4_AbsenceTolerance ==
  lastCall.kind = "validate" =>
    /\ \A pos \in DOMAIN lastCall.args :
         lastCall.args[pos] = "object" =>
           \A k \in ValueKeys :
             (/\ FieldFlagged(ShapeAt(lastCall.args, 1, pos), k)
              /\ \/ pos \o <<k>> \notin DOMAIN lastCall.args
                 \/ lastCall.args[pos \o <<k>>] = "undefined")
             => \A q \in DOMAIN lastCall.errorMap :
                  ~IsPrefix(<<"args">> \o pos \o <<k>>, q)
    /\ lastCall.args = Leaf("object") => lastCall.errorMap = EmptyErrorMap

C4_Witness ==
  /\ lastCall.kind = "validate"
  /\ lastCall.args = Leaf("object")
  /\ FieldFlagged(1, "a")
  /\ lastCall.errorMap = EmptyErrorMap

\* C5: for a list reached with a shape, the member `k` of element `i` is
\* recorded at <list path>.<i as decimal>.<k> exactly when that element is
\* an object holding an explicit null under the shape's constrained key `k`.
C5_ListHandling ==
  lastCall.kind = "validate" =>
    \A pos \in DOMAIN lastCall.args :
      lastCall.args[pos] = "array" =>
        \A i \in 0..(ChildCount(lastCall.args, pos) - 1) :
          LET elem == pos \o <<IndexToString(i)>>
          IN \A k \in ValueKeys :
               (<<"args">> \o elem \o <<k>> \in ViolationPaths(lastCall.errorMap))
               <=> /\ lastCall.args[elem] = "object"
                   /\ elem \o <<k>> \in DOMAIN lastCall.args
                   /\ lastCall.args[elem \o <<k>>] = "null"
                   /\ FieldFlagged(ShapeAt(lastCall.args, 1, pos), k)

C5_Witness ==
  /\ lastCall.kind = "validate"
  /\ lastCall.args = Leaf("array") @@ Graft("0", Leaf("object"))
                       @@ Graft("1", Leaf("object") @@ Graft("a", Leaf("null")))
  /\ ViolationPaths(lastCall.errorMap) = {<<"args", "1", "a">>}

\* C6: an operation whose argMap is absent, empty or reaches no constrained
\* field gets no wrapper, and invoking it runs no validation and throws
\* nothing.
C6_ZeroCostSkip ==
  /\ \A op \in Ops :
       (resolvers[op].created /\ NoConstrainedField(resolvers[op].argMap)) =>
         (resolvers[op].argsValidationType = 0 /\ ~resolvers[op].wrapped)
  /\ (lastCall.kind = "resolve" /\ NoConstrainedField(resolvers[lastCall.op].argMap)) =>
       /\ ~lastCall.validated
       /\ ~lastCall.threw
       /\ lastCall.nextCalls = 1

C6_Witness ==
  /\ lastCall.kind = "resolve"
  /\ resolvers[lastCall.op].argMap = ArgMapOf("x" :> Named("Outer"))
  /\ inputFields["Outer"]["outer"].defined
  /\ inputFields["Inner"]["inner"].defined
  /\ NoConstrainedField(resolvers[lastCall.op].argMap)
  /\ <<"x", "outer", "inner">> \in DOMAIN lastCall.args
  /\ ~lastCall.validated
  /\ lastCall.nextCalls = 1

FlaggedFieldCount ==
  Cardinality({tf \in InputObjectNames \X {"inner", "back", "outer"} :
                 /\ tf[2] \in DeclaredFields(tf[1])
                 /\ Truthy(inputFields[tf[1]][tf[2]].nonNullOptional)})
C8_Termination ==
  /\ ~overflow
  /\ lastSteps <= 2 * (Cardinality(ArgNames) + FlaggedFieldCount)
  /\ \A n \in TypeNames : populateCount[n] <= 1

C8_Witness ==
  /\ inputFields["Inner"]["back"].type = ListOf(NonNullOf(Named("Outer")))
  /\ validationTypeCache["Inner"] # 0
  /\ validationTypeCache["Outer"] # 0
  /\ HasField(validationTypeCache["Inner"], "back")
  /\ HasField(validationTypeCache["Outer"], "outer")
  /\ heap[validationTypeCache["Inner"]].fields["back"].type = validationTypeCache["Outer"]
  /\ heap[validationTypeCache["Outer"]].fields["outer"].type = validationTypeCache["Inner"]

\* C9: a compiled input object type's shape has an entry for a field
\* exactly when the field carries the constraint or its type's shape is
\* non-empty, the entry recording the field's flag and nested shape;
\* scalars compile to an empty shape.
C9_ShapeInclusionRule ==
  /\ \A T \in InputObjectNames :
       validationTypeCache[T] # 0 =>
         \A f \in DeclaredFields(T) :
           /\ HasField(validationTypeCache[T], f)
              <=> \/ Truthy(inputFields[T][f].nonNullOptional)
                  \/ \E U \in ReachableTypes({inputFields[T][f].type.name}) : Constrained(U)
           /\ HasField(validationTypeCache[T], f) =>
                /\ heap[validationTypeCache[T]].fields[f].nonNullOptional
                     = inputFields[T][f].nonNullOptional
                /\ heap[validationTypeCache[T]].fields[f].type
                     = validationTypeCache[inputFields[T][f].type.name]
  /\ \A n \in ScalarNames :
       validationTypeCache[n] # 0 => ~heap[validationTypeCache[n]].hasFields

\* C10: each field entry of a cached shape refers to the cached shape
\* object of the field's named type, which holds that type's populated
\* fields once the compilation has returned; so an explicit null on a
\* constrained field reached through constrained fields, recursive ones
\* included, is reported at its full path at every depth.
C10_CyclicShapeIdentity ==
  /\ \A T \in InputObjectNames :
       validationTypeCache[T] # 0 =>
         /\ heap[validationTypeCache[T]].hasFields <=> Constrained(T)
         /\ \A f \in DOMAIN heap[validationTypeCache[T]].fields :
              /\ heap[validationTypeCache[T]].fields[f].type # 0
              /\ heap[validationTypeCache[T]].fields[f].type
                   = validationTypeCache[inputFields[T][f].type.name]
  /\ lastCall.kind = "resolve" =>
       \A pos \in ConstrainedNulls(resolvers[lastCall.op].argMap, lastCall.args) :
         /\ lastCall.threw
         /\ <<"args">> \o pos \in ViolationPaths(lastCall.errorMap)

C10_Witness ==
  /\ lastCall.kind = "resolve"
  /\ \E p \in ViolationPaths(lastCall.errorMap) :
       Cardinality({i \in 1..Len(p) : p[i] = "back"}) >= 2

====
